---- MODULE Spec2Model ----
(***************************************************************************)
(* Model of src/app.py, the Streamlit chat front-end of the "Intelligent   *)
(* SQL Executor": the step recorder (StreamlitCallbackHandler), the        *)
(* per-session state kept in st.session_state, the process-wide            *)
(* os.environ, and the script run that Streamlit executes top to bottom    *)
(* for every browser event of a session.                                   *)
(*                                                                         *)
(* Python lists are objects: `lists` is the heap of list objects, and the  *)
(* recorder and the assistant messages hold references into it, so that    *)
(* get_steps() handing out the recorder's own list, .copy() and the        *)
(* rebinding done by clear() are told apart.                               *)
(***************************************************************************)
EXTENDS Naturals, Sequences, FiniteSets, TLC

VARIABLES
    pc,             \* per session: position of the session's script run
    event,          \* per session: the browser event the current run was started for
    prompt,         \* per session: local `prompt` of the run (app.py:216-224)
    messages,       \* per session: st.session_state.messages
    pending_query,  \* per session: st.session_state.pending_query
    model_name,     \* per session: st.session_state.model_name
    api_key,        \* per session: st.session_state.api_key
    thread_id,      \* per session: st.session_state.thread_id
    executor,       \* per session: "executor" in st.session_state (success banner shown)
    hsteps,         \* per session: callback_handler.steps, a reference into lists
    response,       \* per session: local response_content of the run (app.py:241)
    thinking,       \* per session: local thinking_steps of the run, a reference (app.py:241)
    lists,          \* the heap of Python list objects: reference -> sequence of steps
    environ,        \* os.environ["GOOGLE_API_KEY"], one per process
    dbOk,           \* whether SQLDatabase.from_uri(SUPABASE_URI) can connect
    issued,         \* the uuid4 values drawn so far in the process
    emitted,        \* history: notifications the agent sent since the invocation began
    invocation,     \* history: what the latest agent_executor.invoke of the session was given
    raised,         \* history: the exception that ended the session's previous turn, if any
    turns,          \* per session: turns begun (bounds the model)
    budget,         \* per session: notifications the agent may still send (bounds the model)
    stopping        \* per session: script threads told to stop that are still inside invoke

vars == <<pc, event, prompt, messages, pending_query, model_name, api_key, thread_id,
          executor, hsteps, response, thinking, lists, environ, dbOk, issued,
          emitted, invocation, raised, turns, budget, stopping>>

-----------------------------------------------------------------------------
(* Bounds of the model *)

MaxTurns == 2
MaxCallbacks == 4
MaxUuids == 3
MaxRecCalls == 3
MaxRecMessages == 1
MaxStopping == 1
MaxTruncCalls == 2
OverLen == 3

Sessions == {1, 2}

-----------------------------------------------------------------------------
(* Values *)

None == "None"
NoRef == 0
NoThread == 0
NoInvocation == [input |-> None]
DefaultModel == "gemini-2.0-flash"

\* Text whose length matters is a sequence of characters.
Str(n) == [i \in 1..n |-> "x"]
Ellipsis == <<".", ".", ".">>

\* Text of n characters in which neighbouring characters differ; k shifts it.
Chars == <<"a", "b", "c">>
Text(n, k) == [i \in 1..n |-> Chars[((i + k) % 3) + 1]]

Queries == {"q1"}
Examples == {"Count total artists in the database"}
Outputs == {"a1", "a2"}
Errors == {"connection refused"}
ModelInputs == {"", "gemini-2.5-pro"}
UserKey(s) == IF s = 1 THEN "key1" ELSE "key2"
KeyInputs(s) == {"", UserKey(s)}
EnvKeys == {"", "envkey"}
Uuids == 1..MaxUuids
BusyKinds == {"chat", "example", "model", "clear"}

\* str(uuid.uuid4()): 122 random bits, taken to differ from every value drawn
\* before in the process; which fresh value is drawn makes no difference.
uuid4(drawn) == CHOOSE u \in Uuids : u \notin drawn /\ \A v \in Uuids : v < u => v \in drawn

NoEvent == [kind |-> "none"]
BrowserEvents(s) ==
    [kind : {"chat"}, text : Queries] \cup [kind : {"example"}, text : Examples]
    \cup [kind : {"model"}, value : ModelInputs] \cup [kind : {"key"}, value : KeyInputs(s)]
    \cup {[kind |-> "clear"]}

\* Notifications of the agent library's callback manager.
ChainStart(serialized) == [kind |-> "chain_start", serialized |-> serialized]
ChainEnd == [kind |-> "chain_end"]
ToolStart == [kind |-> "tool_start", tool |-> "sql_db_query", input |-> "SELECT 1"]
ToolEnd(n) == [kind |-> "tool_end", output |-> Str(n)]
ToolError == [kind |-> "tool_error", error |-> "syntax error"]
AgentAction == [kind |-> "agent_action", tool |-> "sql_db_query"]

ScenarioEvents == {ChainStart("AgentExecutor"), ToolStart, ToolEnd(2), ChainEnd}
AllEvents == ScenarioEvents \cup {ChainStart("RunnableSequence"), ToolError, AgentAction}

Refs == 1..(2 * MaxTurns + MaxRecMessages + 4)

\* The smallest reference not naming a live list object.
Fresh(L) == CHOOSE r \in Refs : r \notin DOMAIN L /\ \A q \in Refs : q < r => q \in DOMAIN L

Last(s) == s[Len(s)]

-----------------------------------------------------------------------------
(* StreamlitCallbackHandler, app.py:21-76.  L is the heap, self the        *)
(* reference held in self.steps; each callback returns the heap after it.  *)

TruncLen == 500

AppendTo(L, self, step) == [L EXCEPT ![self] = Append(@, step)]

\* "Agent" in str(serialized) or "agent" in str(chain_name).lower()
IsAgentChain(serialized) == serialized = "AgentExecutor"

on_chain_start(L, self, serialized) ==
    IF IsAgentChain(serialized)
    THEN AppendTo(L, self, [type |-> "chain_start",
                            content |-> <<"Entering new SQL Agent Executor chain...">>])
    ELSE L

\* on_chain_end without its test of the last step.
on_chain_end_always(L, self) ==
    AppendTo(L, self, [type |-> "chain_end", content |-> <<"Finished chain.">>])

\* on_chain_end that looks for a chain_start anywhere in the buffer.
on_chain_end_after_any_start(L, self) ==
    IF \E i \in 1..Len(L[self]) : L[self][i].type = "chain_start"
    THEN AppendTo(L, self, [type |-> "chain_end", content |-> <<"Finished chain.">>])
    ELSE L

on_chain_end(L, self) ==
    IF L[self] # <<>> /\ Last(L[self]).type = "chain_start"
    THEN AppendTo(L, self, [type |-> "chain_end", content |-> <<"Finished chain.">>])
    ELSE L

on_tool_start(L, self, tool_name, input_str) ==
    AppendTo(L, self, [type |-> "tool_start", tool |-> tool_name, input |-> input_str,
                       content |-> <<"Invoking: ", tool_name, " with ", input_str>>])

\* on_tool_end that cuts an output of exactly the limit as well.
on_tool_end_at_limit(L, self, output) ==
    LET display_output == IF Len(output) >= TruncLen
                          THEN SubSeq(output, 1, TruncLen) \o Ellipsis
                          ELSE output
    IN  AppendTo(L, self, [type |-> "tool_output", content |-> display_output])

on_tool_end(L, self, output) ==
    LET display_output == IF Len(output) > TruncLen
                          THEN SubSeq(output, 1, TruncLen) \o Ellipsis
                          ELSE output
    IN  AppendTo(L, self, [type |-> "tool_output", content |-> display_output])

on_tool_error(L, self, error) ==
    AppendTo(L, self, [type |-> "error", content |-> <<"Error: ", error>>])

on_agent_action(L, self, tool) ==
    AppendTo(L, self, [type |-> "agent_action", content |-> <<"Agent action: ", tool>>])

get_steps(self) == self

\* clear() that binds nothing new and leaves the buffer as it is.
clear_keeps(L, self) == [steps |-> self, heap |-> L]

\* self.steps = []: a new list object is bound, the old one is left as it was.
clear(L, self) == [steps |-> Fresh(L), heap |-> L @@ (Fresh(L) :> <<>>)]

\* The callback manager of the agent library calls the method named by the notification.
Notify(L, self, ev) ==
    CASE ev.kind = "chain_start"  -> on_chain_start(L, self, ev.serialized)
      [] ev.kind = "chain_end"    -> on_chain_end(L, self)
      [] ev.kind = "tool_start"   -> on_tool_start(L, self, ev.tool, ev.input)
      [] ev.kind = "tool_end"     -> on_tool_end(L, self, ev.output)
      [] ev.kind = "tool_error"   -> on_tool_error(L, self, ev.error)
      [] ev.kind = "agent_action" -> on_agent_action(L, self, ev.tool)

-----------------------------------------------------------------------------
(* Transcript entries, app.py:228 and app.py:269-273 *)

UserMessage(text) == [role |-> "user", content |-> text]

\* The append without .copy(): the message holds the recorder's own list.
AppendAssistantAlias(msgs, L, content, thinking_steps) ==
    [messages |-> Append(msgs, [role |-> "assistant", content |-> content,
                                thinking_steps |-> thinking_steps]),
     heap |-> L]

\* messages.append({... "thinking_steps": thinking_steps.copy()}): the message gets a
\* new list object holding the elements of the list thinking_steps refers to.
AppendAssistant(msgs, L, content, thinking_steps) ==
    [messages |-> Append(msgs, [role |-> "assistant", content |-> content,
                                thinking_steps |-> Fresh(L)]),
     heap |-> L @@ (Fresh(L) :> L[thinking_steps])]

\* The steps an assistant message shows.  The copy is shallow, and nothing in
\* app.py changes a step once it is built, so a step is modelled as a value.
StepsOf(L, msg) == L[msg.thinking_steps]

\* List objects still referred to; CPython frees the others.
Live(h, msgs, th) ==
    ({h[s] : s \in Sessions} \cup {th[s] : s \in Sessions}
     \cup UNION {{msgs[s][i].thinking_steps : i \in {j \in 1..Len(msgs[s]) : msgs[s][j].role = "assistant"}}
                 : s \in Sessions}) \ {NoRef}
Collect(L, live) == [r \in DOMAIN L \cap live |-> L[r]]

-----------------------------------------------------------------------------
(* The state before any browser has opened the page *)

NoSessionYet ==
    /\ pc = [s \in Sessions |-> "new"]
    /\ event = [s \in Sessions |-> NoEvent]
    /\ prompt = [s \in Sessions |-> None]
    /\ messages = [s \in Sessions |-> <<>>]
    /\ pending_query = [s \in Sessions |-> None]
    /\ model_name = [s \in Sessions |-> DefaultModel]
    /\ api_key = [s \in Sessions |-> ""]
    /\ thread_id = [s \in Sessions |-> NoThread]
    /\ executor = [s \in Sessions |-> FALSE]
    /\ response = [s \in Sessions |-> None]
    /\ thinking = [s \in Sessions |-> NoRef]
    /\ issued = {}
    /\ emitted = [s \in Sessions |-> <<>>]
    /\ invocation = [s \in Sessions |-> NoInvocation]
    /\ raised = [s \in Sessions |-> None]
    /\ turns = [s \in Sessions |-> 0]
    /\ stopping = [s \in Sessions |-> 0]

Init ==
    /\ NoSessionYet
    /\ hsteps = [s \in Sessions |-> NoRef]
    /\ lists = <<>>
    /\ environ \in EnvKeys
    /\ dbOk \in BOOLEAN
    /\ budget = [s \in Sessions |-> MaxCallbacks]

-----------------------------------------------------------------------------
(* One script run of a session, app.py:83-330, in the steps at which it    *)
(* calls out of the script                                                 *)

\* The uuid4 values drawn plus those the runs under way are about to draw.
Draws ==
    Cardinality(issued)
    + Cardinality({s \in Sessions : pc[s] \in {"top", "sidebar"}
                                    /\ (thread_id[s] = NoThread \/ event[s].kind = "clear")})

\* The browser opens the page: the session's first run starts.
Open(s) ==
    /\ pc[s] = "new"
    /\ Draws < MaxUuids
    /\ pc' = [pc EXCEPT ![s] = "top"]
    /\ event' = [event EXCEPT ![s] = NoEvent]
    /\ UNCHANGED <<prompt, messages, pending_query, model_name, api_key, thread_id,
                   executor, hsteps, response, thinking, lists, environ, dbOk, issued,
                   emitted, invocation, raised, turns, budget, stopping>>

\* A widget of the rendered page is used: Streamlit runs the script again.
Trigger(s, ev, maxTurns) ==
    /\ pc[s] = "idle"
    /\ ev.kind \in {"chat", "example"} => turns[s] < maxTurns
    /\ ev.kind = "clear" => Draws < MaxUuids
    /\ pc' = [pc EXCEPT ![s] = "top"]
    /\ event' = [event EXCEPT ![s] = ev]
    /\ UNCHANGED <<prompt, messages, pending_query, model_name, api_key, thread_id,
                   executor, hsteps, response, thinking, lists, environ, dbOk, issued,
                   emitted, invocation, raised, turns, budget, stopping>>

\* The run in which the chat input goes before the pending query, which waits.
TopChatFirst(s) ==
    /\ pc[s] = "top"
    /\ IF thread_id[s] = NoThread
       THEN /\ thread_id' = [thread_id EXCEPT ![s] = uuid4(issued)]
            /\ issued' = issued \cup {uuid4(issued)}
       ELSE UNCHANGED <<thread_id, issued>>
    /\ IF hsteps[s] = NoRef
       THEN /\ hsteps' = [hsteps EXCEPT ![s] = Fresh(lists)]
            /\ lists' = lists @@ (Fresh(lists) :> <<>>)
       ELSE UNCHANGED <<hsteps, lists>>
    /\ executor' = [executor EXCEPT ![s] = TRUE]
    /\ LET chat == IF event[s].kind = "chat" THEN event[s].text ELSE None
           p == IF chat # None THEN chat ELSE pending_query[s]
       IN  /\ pending_query' = [pending_query EXCEPT ![s] = IF chat # None THEN @ ELSE None]
           /\ IF p # None
              THEN /\ prompt' = [prompt EXCEPT ![s] = p]
                   /\ messages' = [messages EXCEPT ![s] = Append(@, UserMessage(p))]
                   /\ turns' = [turns EXCEPT ![s] = @ + 1]
                   /\ pc' = [pc EXCEPT ![s] = "construct"]
              ELSE /\ pc' = [pc EXCEPT ![s] = "sidebar"]
                   /\ UNCHANGED <<prompt, messages, turns>>
    /\ UNCHANGED <<event, model_name, api_key, response, thinking, environ, dbOk,
                   emitted, invocation, raised, budget, stopping>>

\* app.py:87-106 and 177-186 (session state defaults), 216-221 (the prompt) and
\* 224-228 (the user message).  config (app.py:225) is built and never used.
Top(s) ==
    /\ pc[s] = "top"
    /\ IF thread_id[s] = NoThread
       THEN /\ thread_id' = [thread_id EXCEPT ![s] = uuid4(issued)]
            /\ issued' = issued \cup {uuid4(issued)}
       ELSE UNCHANGED <<thread_id, issued>>
    /\ IF hsteps[s] = NoRef
       THEN /\ hsteps' = [hsteps EXCEPT ![s] = Fresh(lists)]
            /\ lists' = lists @@ (Fresh(lists) :> <<>>)
       ELSE UNCHANGED <<hsteps, lists>>
    /\ executor' = [executor EXCEPT ![s] = TRUE]
    /\ pending_query' = [pending_query EXCEPT ![s] = None]
    /\ LET chat == IF event[s].kind = "chat" THEN event[s].text ELSE None
           p == IF pending_query[s] # None THEN pending_query[s] ELSE chat
       IN  IF p # None
           THEN /\ prompt' = [prompt EXCEPT ![s] = p]
                /\ messages' = [messages EXCEPT ![s] = Append(@, UserMessage(p))]
                /\ turns' = [turns EXCEPT ![s] = @ + 1]
                /\ pc' = [pc EXCEPT ![s] = "construct"]
           ELSE /\ pc' = [pc EXCEPT ![s] = "sidebar"]
                /\ UNCHANGED <<prompt, messages, turns>>
    /\ UNCHANGED <<event, model_name, api_key, response, thinking, environ, dbOk,
                   emitted, invocation, raised, budget, stopping>>

-----------------------------------------------------------------------------
(* run_sql_agent, app.py:113-142, called at app.py:241 with no handler     *)
(* around it                                                               *)

\* st.session_state.model_name or "gemini-2.0-flash"
ModelUsed(s) == IF model_name[s] = "" THEN DefaultModel ELSE model_name[s]

\* api_key=api_key if api_key else None: without a key of its own the client
\* takes the one in os.environ["GOOGLE_API_KEY"] (app.py:119-126).
KeyUsed(s, env) == IF api_key[s] # "" THEN api_key[s] ELSE env

\* An exception leaves the script: Streamlit reports it and the run is over.
Propagate(s, err) ==
    /\ pc' = [pc EXCEPT ![s] = "idle"]
    /\ raised' = [raised EXCEPT ![s] = err]
    /\ prompt' = [prompt EXCEPT ![s] = None]
    /\ emitted' = [emitted EXCEPT ![s] = <<>>]
    /\ invocation' = [invocation EXCEPT ![s] = NoInvocation]

\* app.py:115: SQLDatabase.from_uri raises.
ConstructRaise(s) ==
    /\ pc[s] = "construct"
    /\ ~dbOk
    /\ Propagate(s, "could not connect")
    /\ UNCHANGED <<event, messages, pending_query, model_name, api_key, thread_id,
                   executor, hsteps, response, thinking, lists, environ, dbOk, issued,
                   turns, budget, stopping>>

\* app.py:115-126: the database opens, the key is exported, and the client
\* library finds no credential at all.
CredentialRaise(s) ==
    /\ pc[s] = "construct"
    /\ dbOk
    /\ KeyUsed(s, environ) = ""
    /\ Propagate(s, "no credential")
    /\ UNCHANGED <<event, messages, pending_query, model_name, api_key, thread_id,
                   executor, hsteps, response, thinking, lists, environ, dbOk, issued,
                   turns, budget, stopping>>

\* app.py:115-137: database, model and agent are built, the recorder is cleared
\* and agent_executor.invoke is entered with {"input": query} and
\* config={"callbacks": [callback_handler]}.
Construct(s) ==
    /\ pc[s] = "construct"
    /\ dbOk
    /\ environ' = IF api_key[s] # "" THEN api_key[s] ELSE environ
    /\ LET c == clear(lists, hsteps[s])
       IN  /\ hsteps' = [hsteps EXCEPT ![s] = c.steps]
           /\ lists' = Collect(c.heap, Live(hsteps', messages, thinking))
    /\ invocation' = [invocation EXCEPT ![s] =
                         [input |-> prompt[s], callbacks |-> s, thread_id |-> NoThread,
                          model |-> ModelUsed(s), key |-> KeyUsed(s, environ')]]
    /\ emitted' = [emitted EXCEPT ![s] = <<>>]
    /\ pc' = [pc EXCEPT ![s] = "invoke"]
    /\ UNCHANGED <<event, prompt, messages, pending_query, model_name, api_key,
                   thread_id, executor, response, thinking, dbOk, issued, raised,
                   turns, budget, stopping>>

\* The agent notifies the recorder of one event of its run.
Callback(s, ev, maxCallbacks) ==
    /\ pc[s] = "invoke"
    /\ budget[s] > 0
    /\ Len(emitted[s]) < maxCallbacks
    /\ lists' = Notify(lists, hsteps[s], ev)
    /\ emitted' = [emitted EXCEPT ![s] = Append(@, ev)]
    /\ budget' = [budget EXCEPT ![s] = @ - 1]
    /\ UNCHANGED <<pc, event, prompt, messages, pending_query, model_name, api_key,
                   thread_id, executor, hsteps, response, thinking, environ, dbOk,
                   issued, invocation, raised, turns, stopping>>

\* app.py:137-142 and 241: invoke returns; response["output"] and get_steps().
InvokeReturn(s, output) ==
    /\ pc[s] = "invoke"
    /\ response' = [response EXCEPT ![s] = output]
    /\ thinking' = [thinking EXCEPT ![s] = get_steps(hsteps[s])]
    /\ pc' = [pc EXCEPT ![s] = "returned"]
    /\ UNCHANGED <<event, prompt, messages, pending_query, model_name, api_key,
                   thread_id, executor, hsteps, lists, environ, dbOk, issued, emitted,
                   invocation, raised, turns, budget, stopping>>

\* invoke raises and the session is halted, as st.stop() in a handler would.
InvokeRaiseHalts(s, err) ==
    /\ pc[s] = "invoke"
    /\ pc' = [pc EXCEPT ![s] = "halted"]
    /\ raised' = [raised EXCEPT ![s] = err]
    /\ UNCHANGED <<event, prompt, messages, pending_query, model_name, api_key, thread_id,
                   executor, hsteps, response, thinking, lists, environ, dbOk, issued,
                   emitted, invocation, turns, budget, stopping>>

\* app.py:137: invoke raises; nothing between there and the top of the script
\* catches it.
InvokeRaise(s, err) ==
    /\ pc[s] = "invoke"
    /\ Propagate(s, err)
    /\ UNCHANGED <<event, messages, pending_query, model_name, api_key, thread_id,
                   executor, hsteps, response, thinking, lists, environ, dbOk, issued,
                   turns, budget, stopping>>

\* app.py:244-273: the steps are rendered and the assistant message is appended.
Attach(s) ==
    /\ pc[s] = "returned"
    /\ LET a == AppendAssistant(messages[s], lists, response[s], thinking[s])
       IN  /\ messages' = [messages EXCEPT ![s] = a.messages]
           /\ lists' = a.heap
    /\ pc' = [pc EXCEPT ![s] = "attached"]
    /\ UNCHANGED <<event, prompt, pending_query, model_name, api_key, thread_id,
                   executor, hsteps, response, thinking, environ, dbOk, issued, emitted,
                   invocation, raised, turns, budget, stopping>>

\* app.py:275: st.rerun() ends the run and starts the next, with no widget used.
Rerun(s) ==
    /\ pc[s] = "attached"
    /\ pc' = [pc EXCEPT ![s] = "top"]
    /\ event' = [event EXCEPT ![s] = NoEvent]
    /\ prompt' = [prompt EXCEPT ![s] = None]
    /\ response' = [response EXCEPT ![s] = None]
    /\ thinking' = [thinking EXCEPT ![s] = NoRef]
    /\ raised' = [raised EXCEPT ![s] = None]
    /\ emitted' = [emitted EXCEPT ![s] = <<>>]
    /\ invocation' = [invocation EXCEPT ![s] = NoInvocation]
    /\ UNCHANGED <<messages, pending_query, model_name, api_key, thread_id, executor,
                   hsteps, lists, environ, dbOk, issued, turns, budget, stopping>>

-----------------------------------------------------------------------------
(* The sidebar, app.py:279-329, reached by the runs that had no prompt     *)

\* Clear Chat that empties the transcript and keeps the thread_id.
ClearChatKeepsThread(s) ==
    /\ event[s].kind = "clear"
    /\ messages' = [messages EXCEPT ![s] = <<>>]
    /\ lists' = Collect(lists, Live(hsteps, messages', thinking))
    /\ pc' = [pc EXCEPT ![s] = "top"]
    /\ event' = [event EXCEPT ![s] = NoEvent]
    /\ UNCHANGED <<pending_query, model_name, api_key, thread_id, issued>>

\* app.py:321-325: the Clear Chat button.
ClearChat(s) ==
    /\ event[s].kind = "clear"
    /\ messages' = [messages EXCEPT ![s] = <<>>]
    /\ thread_id' = [thread_id EXCEPT ![s] = uuid4(issued)]
    /\ issued' = issued \cup {uuid4(issued)}
    /\ lists' = Collect(lists, Live(hsteps, messages', thinking))
    /\ pc' = [pc EXCEPT ![s] = "top"]
    /\ event' = [event EXCEPT ![s] = NoEvent]
    /\ UNCHANGED <<pending_query, model_name, api_key>>

\* app.py:314-317: an example button; the query waits for the next run.
ClickExample(s) ==
    /\ event[s].kind = "example"
    /\ pending_query' = [pending_query EXCEPT ![s] = event[s].text]
    /\ pc' = [pc EXCEPT ![s] = "top"]
    /\ event' = [event EXCEPT ![s] = NoEvent]
    /\ UNCHANGED <<messages, thread_id, issued, lists, model_name, api_key>>

\* app.py:297-302: the two text inputs give back what the user last typed.
Settings(s) ==
    /\ event[s].kind \in {"model", "key", "none"}
    /\ model_name' = [model_name EXCEPT ![s] =
                         IF event[s].kind = "model" THEN event[s].value ELSE @]
    /\ api_key' = [api_key EXCEPT ![s] =
                      IF event[s].kind = "key" THEN event[s].value ELSE @]
    /\ pc' = [pc EXCEPT ![s] = "idle"]
    /\ event' = [event EXCEPT ![s] = NoEvent]
    /\ UNCHANGED <<messages, thread_id, issued, lists, pending_query>>

Sidebar(s) ==
    /\ pc[s] = "sidebar"
    /\ \/ Settings(s)
       \/ ClickExample(s)
       \/ ClearChat(s)
    /\ UNCHANGED <<prompt, executor, hsteps, response, thinking, environ, dbOk,
                   emitted, invocation, raised, turns, budget, stopping>>

-----------------------------------------------------------------------------
(* Widgets used while a run is under way.  Streamlit runs the script of a  *)
(* session on a script thread, and a thread learns of a rerun or stop      *)
(* request only inside the st.* calls it makes.  run_sql_agent             *)
(* (app.py:113-142) and the recorder's callbacks (app.py:28-70) make none; *)
(* the turn makes them at app.py:230-238, before run_sql_agent, and at     *)
(* app.py:244-266, before the append of app.py:269.  With runner.fastReruns*)
(* (the default) a widget event tells the running thread to stop and       *)
(* starts a new script thread at once; without it the event is handed to   *)
(* the running thread, which ends its run at its next st.* call.           *)

\* The run is ended at an st.* call of app.py:230-238 or app.py:244-266, and the
\* run for the widget event starts; its locals are new.
Interrupt(s, ev, maxTurns) ==
    /\ pc[s] \in {"construct", "returned"}
    /\ ev.kind \in {"chat", "example"} => turns[s] < maxTurns
    /\ ev.kind = "clear" => Draws < MaxUuids
    /\ pc' = [pc EXCEPT ![s] = "top"]
    /\ event' = [event EXCEPT ![s] = ev]
    /\ prompt' = [prompt EXCEPT ![s] = None]
    /\ response' = [response EXCEPT ![s] = None]
    /\ thinking' = [thinking EXCEPT ![s] = NoRef]
    /\ UNCHANGED <<messages, pending_query, model_name, api_key, thread_id, executor,
                   hsteps, lists, environ, dbOk, issued, emitted, invocation, raised,
                   turns, budget, stopping>>

\* A widget is used while the script thread is inside agent_executor.invoke
\* (app.py:137): the thread is told to stop, which it will learn of after invoke,
\* and a new script thread starts the run for the widget event.
Overrun(s, ev, maxTurns) ==
    /\ pc[s] = "invoke"
    /\ stopping[s] < MaxStopping
    /\ ev.kind \in {"chat", "example"} => turns[s] < maxTurns
    /\ ev.kind = "clear" => Draws < MaxUuids
    /\ stopping' = [stopping EXCEPT ![s] = @ + 1]
    /\ pc' = [pc EXCEPT ![s] = "top"]
    /\ event' = [event EXCEPT ![s] = ev]
    /\ prompt' = [prompt EXCEPT ![s] = None]
    /\ UNCHANGED <<messages, pending_query, model_name, api_key, thread_id, executor,
                   hsteps, response, thinking, lists, environ, dbOk, issued, emitted,
                   invocation, raised, turns, budget>>

\* A widget is used after st.rerun() (app.py:275, 317, 325) asked for the next run
\* and before that run has read its widgets: the run sees the widget event.
Coalesce(s, ev, maxTurns) ==
    /\ pc[s] = "top"
    /\ event[s] = NoEvent
    /\ executor[s]
    /\ ev.kind \in {"chat", "example"} => turns[s] < maxTurns
    /\ ev.kind = "clear" => Draws < MaxUuids
    /\ event' = [event EXCEPT ![s] = ev]
    /\ UNCHANGED <<pc, prompt, messages, pending_query, model_name, api_key, thread_id,
                   executor, hsteps, response, thinking, lists, environ, dbOk, issued,
                   emitted, invocation, raised, turns, budget, stopping>>

\* The agent of a thread told to stop notifies the recorder, which is the one
\* object in st.session_state.callback_handler: the step goes to the list that
\* self.steps names now.
StoppingCallback(s, ev) ==
    /\ stopping[s] > 0
    /\ budget[s] > 0
    /\ lists' = Notify(lists, hsteps[s], ev)
    /\ budget' = [budget EXCEPT ![s] = @ - 1]
    /\ UNCHANGED <<pc, event, prompt, messages, pending_query, model_name, api_key,
                   thread_id, executor, hsteps, response, thinking, environ, dbOk,
                   issued, emitted, invocation, raised, turns, stopping>>

\* invoke of a thread told to stop returns or raises; the thread ends at its next
\* st.* call (app.py:244-266) or with the exception, before app.py:269.
StoppingEnds(s) ==
    /\ stopping[s] > 0
    /\ stopping' = [stopping EXCEPT ![s] = @ - 1]
    /\ UNCHANGED <<pc, event, prompt, messages, pending_query, model_name, api_key,
                   thread_id, executor, hsteps, response, thinking, lists, environ, dbOk,
                   issued, emitted, invocation, raised, turns, budget>>

-----------------------------------------------------------------------------
(* Specifications *)

\* What one session does; c names what its user and its agent may do:
\* c.browser the widget events, c.events the agent's notifications, c.outputs the
\* agent's answers, c.maxTurns and c.maxCallbacks the bounds.
Session(s, c) ==
    \/ Open(s)
    \/ \E ev \in c.browser : Trigger(s, ev, c.maxTurns)
    \/ Top(s)
    \/ ConstructRaise(s)
    \/ CredentialRaise(s)
    \/ Construct(s)
    \/ \E ev \in c.events : Callback(s, ev, c.maxCallbacks)
    \/ \E output \in c.outputs : InvokeReturn(s, output)
    \/ \E err \in Errors : InvokeRaise(s, err)
    \/ Attach(s)
    \/ Rerun(s)
    \/ Sidebar(s)

\* One session with every widget; the agent notifies tool starts.
Next ==
    Session(1, [browser |-> BrowserEvents(1), events |-> {ToolStart}, outputs |-> Outputs,
                maxTurns |-> MaxTurns, maxCallbacks |-> 1])

Spec == Init /\ [][Next]_vars

\* One session whose agent notifies the events of the example scenario.
TraceNext ==
    Session(1, [browser |-> {e \in BrowserEvents(1) : e.kind \in {"chat", "clear"}},
                events |-> ScenarioEvents, outputs |-> Outputs,
                maxTurns |-> MaxTurns, maxCallbacks |-> MaxCallbacks])

TraceInit == Init /\ environ = ""

TraceSpec == TraceInit /\ [][TraceNext]_vars

\* The sessions of one process, interleaved.
MultiNext ==
    \E s \in Sessions :
        Session(s, [browser |-> {e \in BrowserEvents(s) : e.kind \in {"chat", "key", "clear"}},
                    events |-> {ToolStart}, outputs |-> {"a1"},
                    maxTurns |-> 1, maxCallbacks |-> 1])

MultiSpec == Init /\ [][MultiNext]_vars

\* One session, of two turns at most, whose user goes on using the page while a
\* turn is under way.
BusyNext ==
    \/ Session(1, [browser |-> {e \in BrowserEvents(1) : e.kind \in BusyKinds},
                   events |-> {ToolStart}, outputs |-> {"a1"},
                   maxTurns |-> 2, maxCallbacks |-> 1])
    \/ \E ev \in {e \in BrowserEvents(1) : e.kind \in BusyKinds} :
           \/ Interrupt(1, ev, 2)
           \/ Overrun(1, ev, 2)
           \/ Coalesce(1, ev, 2)
    \/ StoppingCallback(1, ToolStart)
    \/ StoppingEnds(1)

BusySpec == Init /\ [][BusyNext]_vars

-----------------------------------------------------------------------------
(* The recorder on its own: one StreamlitCallbackHandler, as constructed   *)
(* (app.py:24-26), whose methods are called in any order, and a transcript *)
(* to which its steps are attached as app.py:269-273 attaches them.        *)

Rec == 1

RecInit ==
    /\ NoSessionYet
    /\ hsteps = [s \in Sessions |-> IF s = Rec THEN 1 ELSE NoRef]
    /\ lists = (1 :> <<>>)
    /\ environ = ""
    /\ dbOk = TRUE
    /\ budget = [s \in Sessions |-> MaxRecCalls]

RecNotify(ev) ==
    /\ budget[Rec] > 0
    /\ lists' = Notify(lists, hsteps[Rec], ev)
    /\ emitted' = [emitted EXCEPT ![Rec] = Append(@, ev)]
    /\ budget' = [budget EXCEPT ![Rec] = @ - 1]
    /\ UNCHANGED <<pc, event, prompt, messages, pending_query, model_name, api_key,
                   thread_id, executor, hsteps, response, thinking, environ, dbOk,
                   issued, invocation, raised, turns, stopping>>

RecClear ==
    /\ LET c == clear(lists, hsteps[Rec])
       IN  /\ hsteps' = [hsteps EXCEPT ![Rec] = c.steps]
           /\ lists' = Collect(c.heap, Live(hsteps', messages, thinking))
    /\ emitted' = [emitted EXCEPT ![Rec] = <<>>]
    /\ UNCHANGED <<pc, event, prompt, messages, pending_query, model_name, api_key,
                   thread_id, executor, response, thinking, environ, dbOk, issued,
                   invocation, raised, turns, budget, stopping>>

RecAttach(output) ==
    /\ Len(messages[Rec]) < MaxRecMessages
    /\ LET a == AppendAssistant(messages[Rec], lists, output, get_steps(hsteps[Rec]))
       IN  /\ messages' = [messages EXCEPT ![Rec] = a.messages]
           /\ lists' = a.heap
    /\ UNCHANGED <<pc, event, prompt, pending_query, model_name, api_key, thread_id,
                   executor, hsteps, response, thinking, environ, dbOk, issued, emitted,
                   invocation, raised, turns, budget, stopping>>

RecNext ==
    \/ \E ev \in AllEvents : RecNotify(ev)
    \/ RecClear
    \/ RecAttach("a1")

RecSpec == RecInit /\ [][RecNext]_vars

-----------------------------------------------------------------------------
(* The recorder told of tool results only (app.py:52-58), with outputs     *)
(* shorter than, as long as and longer than the cutoff.                    *)

OutLens == 0..2 \cup ((TruncLen - 2)..(TruncLen + OverLen))
ToolOutputs == {Text(n, k) : n \in OutLens, k \in 0..2}

TruncToolEnd(output) ==
    /\ Len(emitted[Rec]) < MaxTruncCalls
    /\ RecNotify([kind |-> "tool_end", output |-> output])

TruncNext ==
    \/ \E output \in ToolOutputs : TruncToolEnd(output)
    \/ RecClear

TruncSpec == RecInit /\ [][TruncNext]_vars

-----------------------------------------------------------------------------
(* Properties *)

StepTypes(steps) == [i \in 1..Len(steps) |-> steps[i].type]

\* The types of the steps a sequence of notifications leaves in an empty buffer:
\* one per tool start, tool end, tool error and agent action, one per chain start
\* that names an agent, one per chain end that finds a chain_start as last step.
RECURSIVE RecordedTypes(_)
RecordedTypes(evs) ==
    IF evs = <<>> THEN <<>>
    ELSE LET before == RecordedTypes(SubSeq(evs, 1, Len(evs) - 1))
             e == evs[Len(evs)]
         IN  CASE e.kind = "chain_start" ->
                      IF IsAgentChain(e.serialized) THEN Append(before, "chain_start")
                      ELSE before
               [] e.kind = "chain_end" ->
                      IF before # <<>> /\ Last(before) = "chain_start"
                      THEN Append(before, "chain_end") ELSE before
               [] e.kind = "tool_start" -> Append(before, "tool_start")
               [] e.kind = "tool_end" -> Append(before, "tool_output")
               [] e.kind = "tool_error" -> Append(before, "error")
               [] e.kind = "agent_action" -> Append(before, "agent_action")

\* The transcript is user, assistant, user, assistant, ...
Paired(msgs) ==
    /\ Len(msgs) % 2 = 0
    /\ \A i \in 1..Len(msgs) : msgs[i].role = IF i % 2 = 1 THEN "user" ELSE "assistant"

\* C1: where the database opens and a credential is at hand, so that only the
\* agent's invoke can raise: whenever a session's script is back at rest, each
\* of its turns, the failed ones included, has added one user message followed
\* by one assistant message, and no exception has left a turn.
C1_TurnAddsUserAndAssistant ==
    (dbOk /\ environ # "") =>
        \A s \in Sessions :
            pc[s] = "idle" => Paired(messages[s]) /\ raised[s] = None

ScenarioRun == <<ChainStart("AgentExecutor"), ToolStart, ToolEnd(2), ChainEnd>>

\* C4: a turn whose invocation notified chain start, tool start, tool end and
\* chain end, in that order, appends an assistant message with the agent's
\* output as content and four steps: chain_start, tool_start, tool_output,
\* chain_end.
C4_ScenarioGivesFourSteps ==
    \A s \in Sessions :
        (pc[s] = "attached" /\ emitted[s] = ScenarioRun) =>
            /\ Last(messages[s]).role = "assistant"
            /\ Last(messages[s]).content = response[s]
            /\ StepTypes(StepsOf(lists, Last(messages[s])))
                   = <<"chain_start", "tool_start", "tool_output", "chain_end">>

\* C5: the run that handles the Clear Chat button leaves an empty transcript and
\* a thread_id other than the one held before.
C5_ClearChatResets ==
    [][\A s \in Sessions :
          (pc[s] = "sidebar" /\ event[s].kind = "clear" /\ pc'[s] # "sidebar") =>
              /\ Len(messages'[s]) = 0
              /\ thread_id'[s] # thread_id[s]
              /\ thread_id'[s] # NoThread]_vars

\* C5 witness: Clear Chat has just emptied the transcript of a session that had
\* begun a turn, and the session holds the second thread_id drawn.
C5_Witness ==
    /\ pc[1] = "top"
    /\ turns[1] > 0
    /\ messages[1] = <<>>
    /\ thread_id[1] = 2

\* C6: no step changes what the messages already in the transcript hold: each
\* stays in its place with its role, its content and its steps.
C6_AttachedStepsNeverChange ==
    [][\A i \in 1..Len(messages[Rec]) :
          /\ i <= Len(messages'[Rec])
          /\ messages'[Rec][i].role = messages[Rec][i].role
          /\ messages'[Rec][i].content = messages[Rec][i].content
          /\ StepsOf(lists', messages'[Rec][i]) = StepsOf(lists, messages[Rec][i])]_vars

\* C6 witness: after a message took its steps, the recorder went on recording.
C6_Witness ==
    /\ messages[Rec] # <<>>
    /\ StepsOf(lists, messages[Rec][1]) # <<>>
    /\ Len(lists[hsteps[Rec]]) > Len(StepsOf(lists, messages[Rec][1]))

\* A message of the transcript before a step is the same message after it.
Kept(s, i) ==
    /\ i <= Len(messages'[s])
    /\ messages'[s][i].role = messages[s][i].role
    /\ messages'[s][i].content = messages[s][i].content
    /\ messages[s][i].role = "assistant" =>
           StepsOf(lists', messages'[s][i]) = StepsOf(lists, messages[s][i])

C8_SetupFailureHalts ==
    ~dbOk =>
        \A s \in Sessions :
            ~executor[s] /\ messages[s] = <<>> /\ pc[s] # "invoke"

\* C9: the credential an invocation is made with is never one that only another
\* session entered, and the model is the one its own session names.
C9_CredentialStaysInSession ==
    \A s \in Sessions :
        pc[s] = "invoke" =>
            /\ invocation[s].key \notin {UserKey(t) : t \in Sessions \ {s}}
            /\ invocation[s].model = ModelUsed(s)

\* C10: the invocation under way was given the thread_id its session holds.
C10_InvokedWithThreadId ==
    \A s \in Sessions :
        pc[s] = "invoke" => invocation[s].thread_id = thread_id[s]

\* C11: a session has at most one agent invocation in progress: from the start
\* of an invocation until its steps have been copied into the assistant message,
\* whatever the user does with the page, the recorder is not cleared and no other
\* invocation of the session starts.
C11_OneInvocationAtATime ==
    [][\A s \in Sessions :
          LET started == pc[s] # "invoke" /\ pc'[s] = "invoke"
              uncopied == \/ stopping[s] > 0
                          \/ invocation[s] # NoInvocation /\ pc[s] # "attached"
          IN  /\ ~(stopping'[s] > 0 /\ pc'[s] = "invoke")
              /\ uncopied => (hsteps'[s] = hsteps[s] /\ ~started)]_vars

\* The recorded content of the i-th tool result since the last clear, under
\* TruncSpec, where every notification is a tool end and leaves one step.
Recorded(i) == lists[hsteps[Rec]][i].content

\* C12 as claimed: the content of a recorded tool-result step is never longer
\* than 500 characters, and is the output itself when that has at most 500.
C12_AtMostTruncLen ==
    \A i \in 1..Len(emitted[Rec]) :
        /\ Len(Recorded(i)) <= TruncLen
        /\ Len(emitted[Rec][i].output) <= TruncLen => Recorded(i) = emitted[Rec][i].output

\* C12: the content of a recorded tool-result step is the output itself when
\* that has at most 500 characters, and otherwise the first 500 characters of
\* the output followed by "...", 503 characters in all.
C12_TruncatedWithMarker ==
    \A i \in 1..Len(emitted[Rec]) :
        LET output == emitted[Rec][i].output
        IN  /\ Len(lists[hsteps[Rec]]) = Len(emitted[Rec])
            /\ lists[hsteps[Rec]][i].type = "tool_output"
            /\ Len(Recorded(i)) <= TruncLen + Len(Ellipsis)
            /\ Len(output) <= TruncLen => Recorded(i) = output
            /\ Len(output) > TruncLen =>
                   Recorded(i) = SubSeq(output, 1, TruncLen) \o Ellipsis

\* C12 witness: an output of exactly 500 characters was recorded whole, and one
\* of 502 characters was recorded as 503.
C12_Witness ==
    /\ Len(emitted[Rec]) = 2
    /\ Len(emitted[Rec][1].output) = TruncLen
    /\ Len(Recorded(1)) = TruncLen
    /\ Len(emitted[Rec][2].output) = TruncLen + 2
    /\ Len(Recorded(2)) = TruncLen + Len(Ellipsis)

\* Every chain_end step of a buffer comes right after a chain_start step.
ChainEndsFollowStarts(steps) ==
    \A i \in 1..Len(steps) :
        steps[i].type = "chain_end" => (i > 1 /\ steps[i - 1].type = "chain_start")

\* C13: after every step of the recorder, each chain_end step of its buffer
\* comes right after a chain_start step; and a chain end notification appends
\* one chain_end step where the buffer is not empty and ends in a chain_start,
\* and leaves the buffer as it was everywhere else.
C13_ChainEndFollowsChainStart ==
    [][LET before == lists[hsteps[Rec]]
           after == lists'[hsteps'[Rec]]
       IN  /\ ChainEndsFollowStarts(after)
           /\ emitted'[Rec] = Append(emitted[Rec], ChainEnd) =>
                  IF before # <<>> /\ Last(before).type = "chain_start"
                  THEN /\ Len(after) = Len(before) + 1
                       /\ SubSeq(after, 1, Len(before)) = before
                       /\ Last(after).type = "chain_end"
                  ELSE after = before]_vars

\* C13 witness: a chain end was recorded after the agent's chain start, and the
\* chain end that came next, finding a chain_end as last step, recorded nothing.
C13_Witness ==
    /\ emitted[Rec] = <<ChainStart("AgentExecutor"), ChainEnd, ChainEnd>>
    /\ StepTypes(lists[hsteps[Rec]]) = <<"chain_start", "chain_end">>

\* C14: the run that finds a pending query takes it as its prompt, appends it as
\* the one user message of a turn and resets pending_query to None, also when a
\* chat input came with the same run; pending_query is None whenever an agent
\* invocation starts; and only the click of an example button makes
\* pending_query hold a query, so that a query taken once is not taken again.
C14_PendingQueryIsOneTurn ==
    [][\A s \in Sessions :
          /\ (pc[s] = "top" /\ pc'[s] # "top" /\ pending_query[s] # None) =>
                 /\ prompt'[s] = pending_query[s]
                 /\ pending_query'[s] = None
                 /\ messages'[s] = Append(messages[s], UserMessage(pending_query[s]))
                 /\ pc'[s] = "construct"
          /\ (pc[s] # "invoke" /\ pc'[s] = "invoke") =>
                 (pending_query[s] = None /\ pending_query'[s] = None)
          /\ (pending_query'[s] # None /\ pending_query'[s] # pending_query[s]) =>
                 (pc[s] = "sidebar" /\ event[s].kind = "example"
                    /\ pending_query'[s] = event[s].text)]_vars

\* C14 witness: a run that had both a chat input and a pending query has begun
\* the turn of the pending query.
C14_Witness ==
    /\ pc[1] = "construct"
    /\ event[1].kind = "chat"
    /\ prompt[1] \in Examples
    /\ Last(messages[1]) = UserMessage(prompt[1])
    /\ pending_query[1] = None

====
